---- MODULE Spec2Model ----
(***************************************************************************)
(* Model of iedb_runner.py: the retrying IEDB client                       *)
(* (query_mhcii_with_retry), the task runner (iedb_worker) and the         *)
(* orchestrator (module setup + main with its multiprocessing Pool).       *)
(*                                                                         *)
(* A task is the processing of one record; record ids are the positions    *)
(* 1..n in the input file (unique, as the script assumes), and a file path *)
(* is the id it is built from.  Pool workers are anonymous: the pool is    *)
(* the shared queue of chunks, the number of busy worker processes and     *)
(* starmap's count of outstanding chunks.  A worker runs the tasks of a    *)
(* chunk in order; an exception leaving a task ends the chunk, and starmap *)
(* re-raises the first such exception once every chunk has reported.       *)
(* Sleeps are counted, not timed.                                          *)
(***************************************************************************)
EXTENDS Integers, Sequences, FiniteSets, TLC

VARIABLES
    mpc,          \* control point of the main process
    exit_code,    \* exit status of the main process (meaningful once mpc = "exited")
    console,      \* messages printed to the console
    mainlog,      \* messages the main process logged
    caught,       \* what the except clause around the Pool block caught
    fasta,        \* fasta_sequences: the parsed records
    schema,       \* number of columns of the service's result tables
    pool,         \* the Pool object: "none", "running" (worker processes exist), "terminated"
    taskqueue,    \* the pool's queue of chunks not yet taken by a worker
    busy,         \* number of worker processes executing a chunk
    number_left,  \* chunks of the starmap job whose result is outstanding
    map_success,  \* no chunk of the starmap job has raised so far
    task,         \* per record: the state of its iedb_worker / client call
    long_file,    \* files in LONG_DIR_PATH, by protein name
    short_file    \* files in SHORT_DIR_PATH, by protein name

vars == <<mpc, exit_code, console, mainlog, caught, fasta, schema, pool,
          taskqueue, busy, number_left, map_success, task, long_file, short_file>>

mainvars == <<mpc, exit_code, console, mainlog, caught, fasta, pool>>
poolvars == <<taskqueue, busy, number_left, map_success>>
filevars == <<long_file, short_file>>

----------------------------------------------------------------------------
(* Bounds of the model *)

MaxRecords == 2      \* records in the FASTA file
MaxRetries == 3      \* max_retries of a direct call of the client
MaxRows == 1         \* rows of a result table
MaxCols == 9         \* widest service schema
MaxLen == 3          \* residues of a record, for the sanitizer

(* Program constants *)

NUM_PROCESSES == 4
MAX_API_RETRIES == 15
SHORT_COLUMNS == 8       \* the columns kept by iloc[:, :8]

\* starmap is called without a chunksize: multiprocessing then cuts the tasks
\* into chunks of len(tasks) / (4 * processes), rounded up
CHUNK_FACTOR == 4

\* narrowest service schema: with the protein column it just fills the short file
MinCols == SHORT_COLUMNS - 1

----------------------------------------------------------------------------
(* Values *)

Min(a, b) == IF a < b THEN a ELSE b

Range(s) == {s[i] : i \in DOMAIN s}

PROTEIN == "protein"

ServiceColumns(c) == [i \in 1..c |-> ToString(i)]

\* what one remote call can give: an exception, None, or a DataFrame
ExcResp == [kind |-> "exc", rows |-> 0, cols |-> <<>>, protein |-> 0]
NoneVal == [kind |-> "none", rows |-> 0, cols |-> <<>>, protein |-> 0]
DataFrame(n, c) == [kind |-> "df", rows |-> n, cols |-> ServiceColumns(c), protein |-> 0]

Responses == {ExcResp, NoneVal} \cup {DataFrame(n, schema) : n \in 0..MaxRows}

NoResult == [kind |-> "unset", rows |-> 0, cols |-> <<>>, protein |-> 0]

\* pandas: DataFrame.empty is true when any axis has length 0
Empty(df) == df.rows = 0 \/ Len(df.cols) = 0

\* the residues of the records of the input file
Residues == <<"A", "C", "D", "X", "B", "J">>

FastaFiles == { [i \in 1..n |-> Residues] : n \in 0..MaxRecords }

----------------------------------------------------------------------------
(* Residue sanitizer: str.replace of one character by another *)

ReplaceFirst(s, old, new) ==
    LET hits == { i \in 1..Len(s) : s[i] = old }
    IN  [i \in 1..Len(s) |->
            IF i \in hits /\ (\A j \in hits : i <= j) THEN new ELSE s[i]]

Replace(s, old, new) == [i \in 1..Len(s) |-> IF s[i] = old THEN new ELSE s[i]]

SanitizeShifting(s) == Replace(Replace(Replace(s, "J", "A"), "B", "J"), "X", "B")

Sanitize(s) == Replace(Replace(Replace(s, "X", "A"), "B", "A"), "J", "A")

----------------------------------------------------------------------------
(* The retrying client, query_mhcii_with_retry.  A call is its locals      *)
(* (max_retries, attempts), what it has done so far (remote calls, sleeps, *)
(* log entries by level) and, once it has returned, its return value.      *)

NoCall ==
    [ max_retries |-> 0, attempts |-> 0, last |-> "unset",
      calls |-> 0, jitters |-> 0, delays |-> 0,
      warnings |-> 0, errors |-> 0, infos |-> 0, fails |-> 0, empties |-> 0,
      returned |-> FALSE, result |-> NoResult ]

\* entry of the function: attempts = 0
NewCall(retries) == [NoCall EXCEPT !.max_retries = retries]

LoopGuardInclusive(f) == f.attempts <= f.max_retries

\* the while test of the retry loop
LoopGuard(f) == f.attempts < f.max_retries

NextAttemptStuck(a) == a

\* attempts += 1
NextAttempt(a) == a + 1

IsSuccess(res) == res.kind = "df" /\ ~Empty(res)

EmptyNotRecognised(res) == FALSE

IsEmptyResult(res) == res.kind = "df" /\ Empty(res)

AttemptsExhaustedEarly(f) == f.attempts >= f.max_retries - 1

AttemptsExhausted(f) == f.attempts = f.max_retries

Return(f, value) == [f EXCEPT !.returned = TRUE, !.result = value]

HandleFailureDelayFirst(f) ==
    IF AttemptsExhausted(f)
    THEN Return([f EXCEPT !.errors = @ + 1, !.delays = @ + 1], NoneVal)
    ELSE [f EXCEPT !.warnings = @ + 1, !.infos = @ + 1, !.delays = @ + 1]

\* the body of the except clause, entered with attempts already incremented
HandleFailure(f) ==
    IF AttemptsExhausted(f)
    THEN Return([f EXCEPT !.errors = @ + 1], NoneVal)
    ELSE [f EXCEPT !.warnings = @ + 1, !.infos = @ + 1, !.delays = @ + 1]

NoneAnswerReturned(f) == Return(f, NoneVal)

\* the call returned None: raise, into the except clause
NoneAnswer(f) == HandleFailure(f)

\* one iteration of the retry loop, the remote call answering resp
ClientIteration(f, resp) ==
    LET f1 == [f EXCEPT !.attempts = NextAttempt(@), !.jitters = @ + 1, !.calls = @ + 1,
                        !.last = resp.kind,
                        !.fails = IF resp.kind \in {"exc", "none"} THEN @ + 1 ELSE @,
                        !.empties = IF resp.kind = "df" /\ Empty(resp) THEN @ + 1 ELSE @]
    IN  IF resp.kind = "exc" THEN HandleFailure(f1)
        ELSE IF IsSuccess(resp) THEN Return([f1 EXCEPT !.infos = @ + 1], resp)
        ELSE IF IsEmptyResult(resp) THEN Return([f1 EXCEPT !.warnings = @ + 1], resp)
        ELSE NoneAnswer(f1)

\* the return after the loop
FallThrough(f) == Return(f, NoneVal)

----------------------------------------------------------------------------
(* The task runner, iedb_worker.  A task is the processing of one record:  *)
(* entry tells who called it ("pool": a pool worker runs iedb_worker;      *)
(* "worker": iedb_worker is called directly; "client": the client is       *)
(* called directly).                                                       *)

NewTask(entry) ==
    [ pc |-> "pending", entry |-> entry, seq |-> <<>>, call |-> NoCall,
      result |-> NoResult, wsleeps |-> 0, winfos |-> 0, handed |-> 0,
      raised_at |-> "none" ]

BeginWorkerNoSleep(t, residues) ==
    [t EXCEPT !.seq = Sanitize(residues),
              !.call = NewCall(MAX_API_RETRIES), !.pc = "loop"]

\* sleep, sanitize, call the client
BeginWorker(t, residues) ==
    [t EXCEPT !.wsleeps = @ + 1, !.seq = Sanitize(residues),
              !.call = NewCall(MAX_API_RETRIES), !.pc = "loop"]

ReturnsWithoutWriting(res) == res.kind = "none"

\* the assignment mhcii_res = query_mhcii_with_retry(...): the call is over
Resume(t) == [t EXCEPT !.result = t.call.result, !.call = NoCall]

\* mhcii_res['protein'] = protein_name
AttachProtein(df, name) ==
    [df EXCEPT !.cols = IF PROTEIN \in Range(@) THEN @ ELSE Append(@, PROTEIN),
               !.protein = name]

\* mhcii_res.iloc[:, :k]
ILoc(df, k) ==
    LET kept == SubSeq(df.cols, 1, Min(k, Len(df.cols)))
    IN  [df EXCEPT !.cols = kept,
                   !.protein = IF PROTEIN \in Range(kept) THEN @ ELSE 0]

LongFrame(df, name) == AttachProtein(df, name)

ShortFrameNarrow(df) == ILoc(df, SHORT_COLUMNS - 1)

ShortFrame(df) == ILoc(df, SHORT_COLUMNS)

\* to_csv(path, index=False): what the file holds afterwards
Csv(df) == [kind |-> "csv", rows |-> df.rows, cols |-> df.cols, protein |-> df.protein]

PartialFile == [kind |-> "partial", rows |-> 0, cols |-> <<>>, protein |-> 0]

WriteOutcomes == {"ok", "open_failed", "write_failed"}

\* the directory after to_csv to the path of protein name
Written(dir, name, df, how) ==
    IF how = "ok" THEN (name :> Csv(df)) @@ dir
    ELSE IF how = "write_failed" THEN (name :> PartialFile) @@ dir
    ELSE dir

----------------------------------------------------------------------------
(* The pool: Pool(NUM_PROCESSES) and starmap *)

\* starmap's chunksize for n tasks
ChunkSize(n) ==
    LET q == n \div (NUM_PROCESSES * CHUNK_FACTOR)
        e == n % (NUM_PROCESSES * CHUNK_FACTOR)
    IN  IF e # 0 THEN q + 1 ELSE q

ChunkOf(r) == ((r - 1) \div ChunkSize(Len(fasta))) + 1

NumChunks(n) == IF n = 0 THEN 0 ELSE ((n - 1) \div ChunkSize(n)) + 1

Chunk(c, n) == { r \in 1..n : ((r - 1) \div ChunkSize(n)) + 1 = c }

RaisedOrGaveUp(t) == t.raised_at # "none" \/ t.pc = "returned"

\* iedb_worker ended by an exception rather than by returning
Raised(t) == t.raised_at # "none"

\* a worker process starts record r
Hand(t) == [t EXCEPT !.pc = "begin", !.handed = @ + 1]

\* the worker that ran task r to its end (t its final state): it goes on with
\* the next task of its chunk, or, the chunk finished or aborted by an
\* exception, sends the chunk's result
Finish(r, t) ==
    LET raised == Raised(t)
        nxt == r + 1
        more == /\ t.entry = "pool"
                /\ ~raised
                /\ nxt <= Len(fasta)
                /\ ChunkOf(nxt) = ChunkOf(r)
    IN  /\ task' = IF more THEN [task EXCEPT ![r] = t, ![nxt] = Hand(@)]
                           ELSE [task EXCEPT ![r] = t]
        /\ IF t.entry = "pool" /\ ~more
           THEN /\ busy' = busy - 1
                /\ number_left' = number_left - 1
                /\ map_success' = (map_success /\ ~raised)
                /\ taskqueue' = taskqueue
           ELSE UNCHANGED poolvars

----------------------------------------------------------------------------
(* Initial state: the interpreter starts the script *)

Init ==
    /\ mpc = "argv"
    /\ exit_code = 0
    /\ console = {}
    /\ mainlog = {}
    /\ caught = "none"
    /\ fasta = <<>>
    /\ schema = MaxCols
    /\ pool = "none"
    /\ taskqueue = <<>>
    /\ busy = 0
    /\ number_left = 0
    /\ map_success = TRUE
    /\ task = <<>>
    /\ long_file = <<>>
    /\ short_file = <<>>

----------------------------------------------------------------------------
(* Module setup and main *)

\* a setup step that failed ends in sys.exit(1); the script sets no other exit
\* status
ExitStatusIgnored(failed) == 0

ExitStatus(failed) == IF failed THEN 1 ELSE 0

\* FASTA_PATH = Path(sys.argv[1])
ReadArgv(given) ==
    /\ mpc = "argv"
    /\ IF given
       THEN /\ mpc' = "mkdir"
            /\ UNCHANGED <<exit_code, console>>
       ELSE /\ mpc' = "exited"
            /\ exit_code' = ExitStatus(TRUE)
            /\ console' = console \cup {"provide the path"}
    /\ UNCHANGED <<mainlog, caught, fasta, schema, pool, task>>
    /\ UNCHANGED <<poolvars, filevars>>

\* directory creation, then logging.basicConfig and the first log line
MakeDirs(ok) ==
    /\ mpc = "mkdir"
    /\ IF ok
       THEN /\ mpc' = "parse"
            /\ console' = console \cup {"directories created"}
            /\ mainlog' = mainlog \cup {"Starting process"}
            /\ UNCHANGED exit_code
       ELSE /\ mpc' = "exited"
            /\ exit_code' = ExitStatus(TRUE)
            /\ console' = console \cup {"Error creating directories"}
            /\ UNCHANGED mainlog
    /\ UNCHANGED <<caught, fasta, schema, pool, task>>
    /\ UNCHANGED <<poolvars, filevars>>

\* main: list(SeqIO.parse(...)), raising (parsed = FALSE) or giving file
ParseFasta(parsed, file) ==
    /\ mpc = "parse"
    /\ IF parsed
       THEN /\ fasta' = file
            /\ mainlog' = mainlog \cup {"Number of sequences"}
            /\ mpc' = "check"
            /\ UNCHANGED exit_code
       ELSE /\ mainlog' = mainlog \cup {"Error reading FASTA file"}
            /\ mpc' = "exited"
            /\ exit_code' = ExitStatus(TRUE)
            /\ UNCHANGED fasta
    /\ UNCHANGED <<console, caught, schema, pool, task>>
    /\ UNCHANGED <<poolvars, filevars>>

NoSequencesNever(n) == n < 0

NoSequences(n) == n = 0

\* main: the seq_number == 0 test; otherwise tasks_iterable and 'Process Start'
CheckEmpty ==
    /\ mpc = "check"
    /\ IF NoSequences(Len(fasta))
       THEN /\ mainlog' = mainlog \cup {"No sequences found"}
            /\ mpc' = "exited"
            /\ UNCHANGED task
       ELSE /\ task' = [r \in 1..Len(fasta) |-> NewTask("pool")]
            /\ mainlog' = mainlog \cup {"Process Start"}
            /\ mpc' = "pool"
    /\ UNCHANGED <<exit_code, console, caught, fasta, schema, pool>>
    /\ UNCHANGED <<poolvars, filevars>>

\* where main goes on after the try around the pool block: the except clause
\* handles the exception and falls through to the statements after it
AfterPoolBlockUncaught(raised) == IF raised THEN "exited" ELSE "finish"

AfterPoolBlock(raised) == "finish"

\* with Pool(NUM_PROCESSES) as p: the worker processes start, or the
\* constructor raises and the except clause logs it
CreatePool(ok) ==
    /\ mpc = "pool"
    /\ IF ok
       THEN /\ pool' = "running"
            /\ mpc' = "starmap"
            /\ UNCHANGED <<mainlog, caught>>
       ELSE /\ caught' = "pool_setup"
            /\ mainlog' = mainlog \cup {"CRITICAL"}
            /\ mpc' = AfterPoolBlock(TRUE)
            /\ UNCHANGED pool
    /\ UNCHANGED <<exit_code, console, fasta, schema, task>>
    /\ UNCHANGED <<poolvars, filevars>>

\* p.starmap(iedb_worker, tasks_iterable): the tasks are cut into chunks and
\* the chunks queued
StarMap ==
    /\ mpc = "starmap"
    /\ taskqueue' = [c \in 1..NumChunks(Len(fasta)) |-> c]
    /\ number_left' = NumChunks(Len(fasta))
    /\ map_success' = TRUE
    /\ mpc' = "wait"
    /\ UNCHANGED <<exit_code, console, mainlog, caught, fasta, schema, pool,
                   busy, task>>
    /\ UNCHANGED filevars

\* starmap returns once every chunk has sent its result, re-raising a task's
\* exception; the with block then terminates the pool
MapReturn ==
    /\ mpc = "wait"
    /\ number_left = 0
    /\ IF map_success
       THEN UNCHANGED <<caught, mainlog>>
       ELSE /\ caught' = "task"
            /\ mainlog' = mainlog \cup {"CRITICAL"}
    /\ pool' = "terminated"
    /\ mpc' = AfterPoolBlock(~map_success)
    /\ UNCHANGED <<exit_code, console, fasta, schema, task>>
    /\ UNCHANGED <<poolvars, filevars>>

\* 'Process End', the total time, 'Done!'
FinishRun ==
    /\ mpc = "finish"
    /\ mainlog' = mainlog \cup {"Process End", "Total time taken"}
    /\ console' = console \cup {"Done"}
    /\ mpc' = "exited"
    /\ UNCHANGED <<exit_code, caught, fasta, schema, pool, task>>
    /\ UNCHANGED <<poolvars, filevars>>

----------------------------------------------------------------------------
(* Worker processes *)

\* Pool(NUM_PROCESSES) starts that many worker processes, each running one
\* task at a time: one of them is idle
WorkerFreeAlways == TRUE

WorkerFree == busy < NUM_PROCESSES

\* an idle worker process takes the next chunk from the queue and starts its
\* first task
TakeChunk ==
    /\ pool = "running"
    /\ WorkerFree
    /\ taskqueue # <<>>
    /\ LET first == CHOOSE r \in Chunk(Head(taskqueue), Len(fasta)) :
                       \A q \in Chunk(Head(taskqueue), Len(fasta)) : r <= q
       IN  task' = [task EXCEPT ![first] = Hand(@)]
    /\ taskqueue' = Tail(taskqueue)
    /\ busy' = busy + 1
    /\ UNCHANGED <<number_left, map_success, schema>>
    /\ UNCHANGED <<mainvars, filevars>>

\* iedb_worker up to the call of the client
WorkerBegin(r) ==
    /\ task[r].pc = "begin"
    /\ task' = [task EXCEPT ![r] = BeginWorker(@, fasta[r])]
    /\ UNCHANGED <<mainvars, poolvars, filevars, schema>>

\* one iteration of the client's loop
Attempt(r, resp) ==
    /\ task[r].pc = "loop"
    /\ LoopGuard(task[r].call)
    /\ LET f == ClientIteration(task[r].call, resp)
       IN  task' = [task EXCEPT ![r].call = f,
                                ![r].pc = IF f.returned THEN "ret" ELSE "loop"]
    /\ UNCHANGED <<mainvars, poolvars, filevars, schema>>

\* the loop is left by its test
LoopExit(r) ==
    /\ task[r].pc = "loop"
    /\ ~LoopGuard(task[r].call)
    /\ task' = [task EXCEPT ![r].call = FallThrough(@), ![r].pc = "ret"]
    /\ UNCHANGED <<mainvars, poolvars, filevars, schema>>

\* iedb_worker: mhcii_res is None, return
WorkerReturnNone(r) ==
    /\ task[r].pc = "ret"
    /\ task[r].entry # "client"
    /\ ReturnsWithoutWriting(task[r].call.result)
    /\ Finish(r, [Resume(task[r]) EXCEPT !.pc = "returned"])
    /\ UNCHANGED <<mainvars, filevars, schema>>

\* iedb_worker after the first to_csv: the second one follows when it
\* returned, its exception leaves the function
AfterLongWriteSwallowed(how) == "short"

AfterLongWrite(how) == IF how = "ok" THEN "short" ELSE "raised"

\* iedb_worker: 'Writing files', the protein column, the long file
WriteLong(r, how) ==
    /\ task[r].pc = "ret"
    /\ task[r].entry # "client"
    /\ ~ReturnsWithoutWriting(task[r].call.result)
    /\ LET df == LongFrame(task[r].call.result, r)
           t  == [Resume(task[r]) EXCEPT !.result = df, !.winfos = @ + 1]
       IN  /\ long_file' = Written(long_file, r, df, how)
           /\ IF AfterLongWrite(how) = "short"
              THEN /\ task' = [task EXCEPT ![r] = [t EXCEPT !.pc = "short"]]
                   /\ UNCHANGED poolvars
              ELSE Finish(r, [t EXCEPT !.pc = "raised", !.raised_at = "long"])
    /\ UNCHANGED <<mainvars, short_file, schema>>

\* iedb_worker: the short file, 'Has been completed and saved'
WriteShort(r, how) ==
    /\ task[r].pc = "short"
    /\ short_file' = Written(short_file, r, ShortFrame(task[r].result), how)
    /\ IF how = "ok"
       THEN Finish(r, [task[r] EXCEPT !.pc = "saved", !.winfos = @ + 1])
       ELSE Finish(r, [task[r] EXCEPT !.pc = "raised", !.raised_at = "short"])
    /\ UNCHANGED <<mainvars, long_file, schema>>

\* The return after the loop (LoopExit) is no step of a run of the script:
\* main passes MAX_API_RETRIES, and with max_retries >= 1 the loop is always
\* left by a return from inside it.
Next ==
    \/ \E given \in BOOLEAN : ReadArgv(given)
    \/ \E ok \in BOOLEAN : MakeDirs(ok)
    \/ \E parsed \in BOOLEAN, file \in FastaFiles : ParseFasta(parsed, file)
    \/ CheckEmpty
    \/ \E ok \in BOOLEAN : CreatePool(ok)
    \/ StarMap
    \/ TakeChunk
    \/ \E r \in DOMAIN task : WorkerBegin(r)
    \/ \E r \in DOMAIN task, resp \in Responses : Attempt(r, resp)
    \/ \E r \in DOMAIN task : WorkerReturnNone(r)
    \/ \E r \in DOMAIN task, how \in WriteOutcomes : WriteLong(r, how)
    \/ \E r \in DOMAIN task, how \in WriteOutcomes : WriteShort(r, how)
    \/ MapReturn
    \/ FinishRun

Spec == Init /\ [][Next]_vars

----------------------------------------------------------------------------
(* The two functions called directly, as a test would: the client with any *)
(* max_retries and sequence, or iedb_worker on one record, against any     *)
(* service schema.  The line-114 return (LoopExit) is reached only here:   *)
(* main always passes MAX_API_RETRIES.                                     *)

UnitResidues == { Residues, <<"M", "K">> }

ClientCall(s, retries) ==
    [NewTask("client") EXCEPT !.pc = "loop", !.seq = s, !.call = NewCall(retries)]

WorkerCall == [NewTask("worker") EXCEPT !.pc = "begin", !.handed = 1]

InitUnit ==
    /\ mpc = "harness"
    /\ exit_code = 0
    /\ console = {}
    /\ mainlog = {}
    /\ caught = "none"
    /\ \E s \in UnitResidues : fasta = <<s>>
    /\ schema \in MinCols..MaxCols
    /\ pool = "none"
    /\ taskqueue = <<>>
    /\ busy = 0
    /\ number_left = 0
    /\ map_success = TRUE
    /\ \/ \E m \in (-1)..MaxRetries : task = <<ClientCall(Sanitize(fasta[1]), m)>>
       \/ task = <<WorkerCall>>
    /\ long_file = <<>>
    /\ short_file = <<>>

NextUnit ==
    \/ \E r \in DOMAIN task : WorkerBegin(r)
    \/ \E r \in DOMAIN task, resp \in Responses : Attempt(r, resp)
    \/ \E r \in DOMAIN task : LoopExit(r)
    \/ \E r \in DOMAIN task : WorkerReturnNone(r)
    \/ \E r \in DOMAIN task, how \in WriteOutcomes : WriteLong(r, how)
    \/ \E r \in DOMAIN task, how \in WriteOutcomes : WriteShort(r, how)

SpecUnit == InitUnit /\ [][NextUnit]_vars

----------------------------------------------------------------------------
(* iedb_worker called on one record up to its call of the client, for      *)
(* every residue string of at most MaxLen symbols over an alphabet that    *)
(* holds the three replaced symbols, and for the string of Residues.       *)

Alphabet == Range(Residues)

SanitizerInputs ==
    UNION { [1..n -> Alphabet] : n \in 0..MaxLen } \cup { Residues }

InitSanitize ==
    /\ mpc = "harness"
    /\ exit_code = 0
    /\ console = {}
    /\ mainlog = {}
    /\ caught = "none"
    /\ \E s \in SanitizerInputs : fasta = <<s>>
    /\ schema = MaxCols
    /\ pool = "none"
    /\ taskqueue = <<>>
    /\ busy = 0
    /\ number_left = 0
    /\ map_success = TRUE
    /\ task = <<WorkerCall>>
    /\ long_file = <<>>
    /\ short_file = <<>>

NextSanitize == \E r \in DOMAIN task : WorkerBegin(r)

SpecSanitize == InitSanitize /\ [][NextSanitize]_vars

----------------------------------------------------------------------------
(* A run on the smallest input that starmap cuts into chunks of two tasks  *)
(* (one record more than NUM_PROCESSES * CHUNK_FACTOR), with a service     *)
(* that answers every first attempt with a one-row table and an output     *)
(* directory in which the first record's long file cannot be created (its  *)
(* name holds a path separator, say) and every other file can.             *)

LargeFile == [i \in 1..(NUM_PROCESSES * CHUNK_FACTOR + 1) |-> Residues]

FailingPaths == {1}

NextLarge ==
    \/ ReadArgv(TRUE)
    \/ MakeDirs(TRUE)
    \/ ParseFasta(TRUE, LargeFile)
    \/ CheckEmpty
    \/ CreatePool(TRUE)
    \/ StarMap
    \/ TakeChunk
    \/ \E r \in DOMAIN task : WorkerBegin(r)
    \/ \E r \in DOMAIN task : Attempt(r, DataFrame(1, schema))
    \/ \E r \in DOMAIN task \ FailingPaths : WriteLong(r, "ok")
    \/ \E r \in DOMAIN task \cap FailingPaths : WriteLong(r, "open_failed")
    \/ \E r \in DOMAIN task : WriteShort(r, "ok")
    \/ MapReturn
    \/ FinishRun

SpecLarge == Init /\ [][NextLarge]_vars

----------------------------------------------------------------------------
(* Properties of the retrying client, checked under SpecUnit *)

Calls == { task[r].call : r \in DOMAIN task }

Outcome(res) ==
    CASE res.kind = "df" /\ res.rows > 0 /\ Len(res.cols) > 0 -> "Success"
      [] res.kind = "df" /\ (res.rows = 0 \/ Len(res.cols) = 0) -> "EmptyResult"
      [] res.kind = "none" -> "PermanentFailure"
      [] OTHER -> "Exception"

\* C1: a call with max_retries >= 1 never makes more than max_retries remote
\* calls, whatever the service answers, and when it ends it ends by returning
\* a non-empty table, an empty table or None; it never ends with an exception
\* (a call ended by an exception would hold a value of kind "exc").
C1_BoundedAttemptsThreeOutcomes ==
    \A f \in Calls :
        f.max_retries >= 1 =>
            /\ f.calls <= f.max_retries
            /\ f.attempts <= f.max_retries
            /\ f.returned =>
                  Outcome(f.result) \in {"Success", "EmptyResult", "PermanentFailure"}
            /\ ~f.returned => f.result = NoResult

\* a call that failed twice and then returned a table on its third and last
\* permitted attempt
C1_Witness ==
    \E f \in Calls :
        /\ f.max_retries = MaxRetries
        /\ f.calls = f.max_retries
        /\ f.fails = f.max_retries - 1
        /\ f.returned
        /\ Outcome(f.result) = "Success"

\* C2: a call (max_retries >= 1) that returned after the service failed on
\* every attempt made exactly max_retries attempts, logged max_retries - 1
\* warnings and one error, and returned None; and a task of iedb_worker that
\* returned because of it raised nothing and left no long and no short file
\* for its record.
C2_PermanentFailure ==
    /\ \A f \in Calls :
          (f.max_retries >= 1 /\ f.returned /\ f.fails = f.calls) =>
              /\ f.calls = f.max_retries
              /\ f.attempts = f.max_retries
              /\ f.warnings = f.max_retries - 1
              /\ f.errors = 1
              /\ f.warnings + f.errors = f.calls
              /\ Outcome(f.result) = "PermanentFailure"
    /\ \A f \in Calls :
          (f.max_retries >= 1 /\ f.returned /\ Outcome(f.result) = "PermanentFailure") =>
              f.fails = f.calls /\ f.calls = f.max_retries
    /\ \A r \in DOMAIN task :
          ( \/ task[r].pc = "returned"
            \/ /\ task[r].pc = "ret"
               /\ Outcome(task[r].call.result) = "PermanentFailure" ) =>
              /\ r \notin DOMAIN long_file
              /\ r \notin DOMAIN short_file
              /\ task[r].raised_at = "none"

\* iedb_worker has returned after its MAX_API_RETRIES attempts all failed
C2_Witness ==
    \E r \in DOMAIN task :
        /\ task[r].entry = "worker"
        /\ task[r].pc = "returned"
        /\ task[r].result = NoneVal
        /\ r \notin DOMAIN long_file
        /\ r \notin DOMAIN short_file

\* C3: the service answers with an empty table at most once per call, and the
\* call has then returned that empty table: the empty answer was the last
\* remote call (calls = failures before it + 1), every failure before it was
\* followed by one fixed delay and none follows it, and an empty answer to the
\* first attempt leaves the attempt count at 1.
C3_EmptyReturnedAtOnce ==
    \A f \in Calls :
        /\ f.empties <= 1
        /\ f.empties = 1 =>
              /\ f.returned
              /\ Outcome(f.result) = "EmptyResult"
              /\ f.last = "df"
              /\ f.attempts = f.fails + 1
              /\ f.calls = f.attempts
              /\ f.jitters = f.attempts
              /\ f.delays = f.fails
              /\ (f.fails = 0 => f.attempts = 1)

\* an empty table came as the answer to the first attempt of a call that had
\* attempts left
C3_Witness ==
    \E f \in Calls :
        /\ f.max_retries > 1
        /\ f.empties = 1
        /\ f.fails = 0
        /\ f.attempts = 1
        /\ f.returned

\* C4: an attempt answered with None is handled as an attempt that raised.
\* After a None answer the call either goes on (attempts left: one more
\* warning and one more fixed delay, as many of each as failures so far) or has
\* returned None with one error logged (no attempt left); it has never
\* returned a table.  And in every state in which an attempt can be made, the
\* None answer and the exception lead to the same state of the call, but for
\* the record of which answer it was.
C4_NoneIsTransientFailure ==
    /\ \A f \in Calls :
          f.last = "none" =>
              /\ f.returned => /\ f.result = NoneVal
                               /\ f.attempts = f.max_retries
                               /\ f.errors = 1
                               /\ f.warnings = f.fails - 1
                               /\ f.delays = f.fails - 1
              /\ ~f.returned => /\ f.attempts < f.max_retries
                                /\ f.errors = 0
                                /\ f.warnings = f.fails
                                /\ f.delays = f.fails
    /\ \A r \in DOMAIN task :
          (task[r].pc = "loop" /\ LoopGuard(task[r].call)) =>
              [ClientIteration(task[r].call, NoneVal) EXCEPT !.last = "exc"]
                  = ClientIteration(task[r].call, ExcResp)

\* a None answer to a non-final attempt: the call has slept and goes on
C4_Witness ==
    \E r \in DOMAIN task :
        /\ task[r].pc = "loop"
        /\ task[r].call.last = "none"
        /\ task[r].call.warnings = 1
        /\ task[r].call.delays = 1
        /\ LoopGuard(task[r].call)

----------------------------------------------------------------------------
(* Properties of the task runner and of the run *)

Tasks == DOMAIN task

WriteFailed(r) == task[r].raised_at # "none"

Terminal(r) == task[r].pc \in {"saved", "returned"}

PoolReturned == pool = "terminated" /\ mpc \in {"finish", "exited"}

FilesOf(r) ==
    {long_file[i] : i \in {r} \cap DOMAIN long_file}
        \cup {short_file[i] : i \in {r} \cap DOMAIN short_file}

\* C5: an error raised while a task writes its long or its short file stays
\* within the task: the except clause of main never catches a task's
\* exception, and once the pool has returned every record other than the one
\* whose write failed has saved its files or given up after its retries.
C5_PersistErrorConfined ==
    /\ caught # "task"
    /\ PoolReturned => \A r \in Tasks : WriteFailed(r) \/ Terminal(r)

\* C6: a record's permanent failure stays with that record.  An exception
\* reaches main only if some task's write failed; when no write failed, the
\* pool returns without exception, every record has then given up (None) or
\* been saved, and every saved record has its complete long and short file,
\* whatever the other records did; a record that gave up has no file, and
\* every file is the file of a record that got a table.
C6_FailureIsolated ==
    /\ caught = "task" => \E r \in Tasks : WriteFailed(r)
    /\ (PoolReturned /\ \A r \in Tasks : ~WriteFailed(r)) =>
          /\ caught = "none"
          /\ \A r \in Tasks : Terminal(r)
    /\ \A r \in Tasks :
          /\ task[r].pc = "saved" =>
                /\ r \in DOMAIN long_file /\ r \in DOMAIN short_file
                /\ long_file[r].kind = "csv" /\ long_file[r].protein = r
                /\ short_file[r].kind = "csv"
                /\ long_file[r].rows = task[r].result.rows
                /\ short_file[r].rows = task[r].result.rows
          /\ task[r].pc = "returned" => FilesOf(r) = {}
    /\ \A i \in DOMAIN long_file \cup DOMAIN short_file :
          i \in Tasks /\ task[i].pc \in {"short", "saved", "raised"}

\* a finished run of two or more records of which exactly one failed
\* permanently and the others were saved
C6_Witness ==
    /\ mpc = "exited"
    /\ "Process End" \in mainlog
    /\ caught = "none"
    /\ Cardinality(Tasks) >= 2
    /\ Cardinality({r \in Tasks : task[r].pc = "returned"}) = 1
    /\ \A r \in Tasks : task[r].pc \in {"returned", "saved"}
    /\ \E r \in Tasks : task[r].pc = "saved" /\ task[r].result.rows > 0

\* C7: no record is ever handed to a worker twice, and when the dispatcher
\* has returned every record has been handed to a worker exactly once.
C7_ExactlyOnce ==
    /\ \A r \in Tasks : task[r].handed <= 1
    /\ PoolReturned => \A r \in Tasks : task[r].handed = 1

\* C8: once 'Process End' is logged every record's task has reached one of
\* its terminal states: saved (success or empty result) or given up
\* (permanent failure).
C8_EndOnlyAfterAllTerminal ==
    "Process End" \in mainlog => \A r \in Tasks : Terminal(r)

\* C9: a task that has saved (the client returned a table, empty or not, and
\* both writes went through) has left at its record's path one long file with
\* every service column followed by the protein column, the protein being the
\* record's id, and one short file with the first 8 columns of the long one,
\* both with as many rows as the result; files exist only at the paths of
\* records that reached the writes; and a task returns without writing only
\* when the client returned None.
C9_FilesWritten ==
    /\ \A r \in Tasks :
          task[r].pc = "saved" =>
              /\ r \in DOMAIN long_file
              /\ r \in DOMAIN short_file
              /\ long_file[r].kind = "csv"
              /\ long_file[r].cols = ServiceColumns(schema) \o <<"protein">>
              /\ long_file[r].protein = r
              /\ long_file[r].rows = task[r].result.rows
              /\ short_file[r].kind = "csv"
              /\ short_file[r].cols = SubSeq(long_file[r].cols, 1, 8)
              /\ short_file[r].rows = task[r].result.rows
              /\ short_file[r].protein = IF schema < 8 THEN r ELSE 0
    /\ \A r \in Tasks :
          task[r].pc = "short" =>
              /\ r \in DOMAIN long_file
              /\ long_file[r] = Csv(task[r].result)
    /\ \A r \in Tasks : task[r].pc = "returned" => task[r].result = NoneVal
    /\ \A i \in DOMAIN long_file \cup DOMAIN short_file :
          i \in Tasks /\ task[i].pc \in {"short", "saved", "raised"}

\* iedb_worker has saved a one-row result of a nine-column service: a long file
\* of ten columns, a short file of eight
C9_Witness ==
    \E r \in Tasks :
        /\ task[r].entry = "worker"
        /\ task[r].pc = "saved"
        /\ task[r].result.rows = 1
        /\ Len(long_file[r].cols) = 10
        /\ Len(short_file[r].cols) = 8

\* C10: with zero records main logs the no-input warning and returns: the run
\* has ended with exit code 0, no pool was ever created, no task exists (so no
\* remote call was made), nothing was queued and no file was written; and a
\* run that parsed zero records does nothing else.
C10_NoInput ==
    /\ "No sequences found" \in mainlog =>
          /\ mpc = "exited"
          /\ exit_code = 0
          /\ pool = "none"
          /\ task = <<>>
          /\ taskqueue = <<>> /\ busy = 0 /\ number_left = 0
          /\ long_file = <<>> /\ short_file = <<>>
          /\ caught = "none"
          /\ mainlog \cap {"Process Start", "Process End", "CRITICAL"} = {}
    /\ ("Number of sequences" \in mainlog /\ Len(fasta) = 0 /\ mpc # "check") =>
          "No sequences found" \in mainlog

C10_Witness ==
    /\ "No sequences found" \in mainlog
    /\ "Number of sequences" \in mainlog
    /\ Len(fasta) = 0
    /\ mpc = "exited"

----------------------------------------------------------------------------
(* The ways a run ends, checked under Spec *)

ExactlyOne(flags) == Cardinality({ i \in DOMAIN flags : flags[i] }) = 1

SetupFailureReported ==
    \/ "provide the path" \in console
    \/ "Error creating directories" \in console
    \/ "Error reading FASTA file" \in mainlog

NothingDispatched ==
    /\ pool = "none"
    /\ task = <<>>
    /\ taskqueue = <<>> /\ busy = 0 /\ number_left = 0
    /\ long_file = <<>> /\ short_file = <<>>

SetupFailureEnd == mpc = "exited" /\ exit_code # 0

NoInputEnd == mpc = "exited" /\ "No sequences found" \in mainlog

\* completed: the pool was started, starmap returned (every chunk reported)
\* and the pool is gone
CompletedEnd ==
    /\ mpc = "exited"
    /\ "Process End" \in mainlog
    /\ pool = "terminated"
    /\ taskqueue = <<>> /\ number_left = 0

\* the Pool constructor raised: the run went on to the completion logging
\* with no worker process ever started
PoolNeverStartedEnd ==
    /\ mpc = "exited"
    /\ "Process End" \in mainlog
    /\ caught = "pool_setup"
    /\ pool = "none"
    /\ \A r \in DOMAIN task : task[r].pc = "pending" /\ task[r].handed = 0
    /\ taskqueue = <<>> /\ busy = 0 /\ number_left = 0
    /\ long_file = <<>> /\ short_file = <<>>

SetupFailuresExitNonZero ==
    /\ SetupFailureReported => SetupFailureEnd
    /\ exit_code # 0 =>
          /\ SetupFailureEnd
          /\ SetupFailureReported
          /\ NothingDispatched
          /\ caught = "none"
          /\ mainlog \cap {"Process Start", "Process End", "CRITICAL",
                           "No sequences found"} = {}

\* C11 as stated: a missing argument, a failed directory creation and an
\* input file that cannot be read each end the run with a non-zero exit code
\* with no pool, no task (so no remote call) and no result file; and a run
\* that has ended is in exactly one of setup-failure, no-input and completed
\* (pool drained).
C11_ThreeEndings ==
    /\ SetupFailuresExitNonZero
    /\ mpc = "exited" =>
          ExactlyOne(<<SetupFailureEnd, NoInputEnd, CompletedEnd>>)

\* C11 amended: the same, with a fourth ending: the Pool constructor raised,
\* the exception was logged as critical and the run ended after the
\* completion logging with exit code 0 and nothing dispatched.
C11_FourEndings ==
    /\ SetupFailuresExitNonZero
    /\ mpc = "exited" =>
          ExactlyOne(<<SetupFailureEnd, NoInputEnd, CompletedEnd,
                       PoolNeverStartedEnd>>)

C11_Witness ==
    /\ "Error reading FASTA file" \in mainlog
    /\ "directories created" \in console
    /\ mpc = "exited"
    /\ exit_code = 1
    /\ NothingDispatched

\* C12: an exception leaving the pool block (from the Pool constructor or
\* re-raised by starmap for a task) is caught by main and logged as critical,
\* and nothing else is; once 'Process Start' is logged the exit code stays 0
\* and the run does not end without 'Process End', the total time and 'Done',
\* whether or not an exception was caught.
C12_PoolFailureCaught ==
    /\ caught # "none" <=> "CRITICAL" \in mainlog
    /\ caught # "none" => mpc \in {"finish", "exited"}
    /\ caught = "pool_setup" => pool = "none"
    /\ (pool = "terminated" /\ ~map_success) => caught = "task"
    /\ "Process Start" \in mainlog => exit_code = 0
    /\ (mpc = "exited" /\ "Process Start" \in mainlog) =>
          /\ {"Process End", "Total time taken"} \subseteq mainlog
          /\ "Done" \in console

C12_Witness ==
    /\ mpc = "exited"
    /\ caught = "task"
    /\ {"Process Start", "CRITICAL", "Process End"} \subseteq mainlog
    /\ exit_code = 0

\* C13: starting from empty output directories, in every reachable state a
\* record's short file exists only if its long file exists, and the long file
\* is then complete: iedb_worker writes the long file first and reaches the
\* second write only when the first returned.
C13_LongBeforeShort ==
    \A r \in DOMAIN short_file :
        /\ r \in DOMAIN long_file
        /\ long_file[r].kind = "csv"

C13_Witness ==
    \E r, q \in DOMAIN task :
        /\ r \in DOMAIN long_file /\ r \in DOMAIN short_file
        /\ task[q].raised_at = "short"
        /\ q \in DOMAIN long_file /\ q \notin DOMAIN short_file

----------------------------------------------------------------------------
(* The pool's concurrency, checked under SpecLarge (17 records) *)

Executing == { r \in DOMAIN task : task[r].pc \in {"begin", "loop", "ret", "short"} }

Queued == UNION { Chunk(taskqueue[i], Len(fasta)) : i \in DOMAIN taskqueue }

\* C14: at every moment at most NUM_PROCESSES tasks are executing, one per
\* busy worker process, however many records there are; a record whose chunk
\* is still in the queue has not been started.
C14_AtMostNumProcesses ==
    /\ Cardinality(Executing) <= NUM_PROCESSES
    /\ Cardinality(Executing) = busy
    /\ \A r \in Queued : task[r].pc = "pending" /\ task[r].handed = 0

C14_Witness ==
    /\ Cardinality(Executing) = NUM_PROCESSES
    /\ Len(fasta) > NUM_PROCESSES
    /\ taskqueue # <<>>
    /\ \E r \in DOMAIN task : task[r].pc = "saved"

Ended(r) == task[r].pc \in {"saved", "returned", "raised"}

\* C15: every record's task reaches an end (a saved result, a return without
\* writing, or an exception) and the run reaches its final summary.  In the
\* form a finite run refutes: once the run has ended, after which no task
\* takes a step, no record's task is still short of its end.
C15_EveryTaskEnds ==
    mpc = "exited" => \A r \in DOMAIN task : Ended(r)

----------------------------------------------------------------------------
(* The sanitizer, checked under SpecSanitize *)

Ambiguous == {"X", "B", "J"}

Submitted(r) == task[r].pc = "loop" /\ task[r].call.max_retries = MAX_API_RETRIES

\* C16: the sanitizer is idempotent and total: for every residue string the
\* sanitized string is a string of the same length, and sanitizing it again
\* gives the same string.
C16_SanitizeIdempotent ==
    \A r \in DOMAIN task :
        Submitted(r) =>
            /\ Len(task[r].seq) = Len(fasta[r])
            /\ DOMAIN task[r].seq = 1..Len(fasta[r])
            /\ Sanitize(task[r].seq) = task[r].seq
            /\ Sanitize(Sanitize(fasta[r])) = Sanitize(fasta[r])

C16_Witness ==
    \E r \in DOMAIN task :
        /\ Submitted(r)
        /\ fasta[r] = <<"X", "B", "J">>
        /\ task[r].seq = <<"A", "A", "A">>

\* C17: the string handed to the client is the record's residue string with
\* every X, B and J replaced by A and every other residue unchanged at its
\* position; for ACDXBJ it is ACDAAA.
C17_SubmittedResidues ==
    \A r \in DOMAIN task :
        Submitted(r) =>
            /\ Len(task[r].seq) = Len(fasta[r])
            /\ \A i \in 1..Len(fasta[r]) :
                  task[r].seq[i] = IF fasta[r][i] \in Ambiguous THEN "A"
                                   ELSE fasta[r][i]
            /\ fasta[r] = <<"A", "C", "D", "X", "B", "J">> =>
                  task[r].seq = <<"A", "C", "D", "A", "A", "A">>

C17_Witness ==
    \E r \in DOMAIN task :
        /\ Submitted(r)
        /\ fasta[r] = <<"A", "C", "D", "X", "B", "J">>
        /\ task[r].seq = <<"A", "C", "D", "A", "A", "A">>

----------------------------------------------------------------------------
(* Sleeps of a task, checked under SpecUnit *)

WorkerStarted(r) ==
    task[r].entry # "client" /\ task[r].pc \notin {"pending", "begin"}

\* C18 as stated: the task runner performs no sleep outside the client.
C18_NoSleepOutsideClient ==
    \A r \in DOMAIN task : task[r].wsleeps = 0

\* C18 amended: the task runner sleeps exactly once outside the client, at
\* its start before it sanitizes the sequence and calls the client, and never
\* again, whatever the client returns and whether or not the files are
\* written; a direct call of the client involves no sleep of the task runner.
C18_OneSleepOutsideClient ==
    \A r \in DOMAIN task :
        task[r].wsleeps = IF WorkerStarted(r) THEN 1 ELSE 0

C18_Witness ==
    \E r \in DOMAIN task :
        /\ task[r].entry = "worker"
        /\ task[r].pc = "saved"
        /\ task[r].wsleeps = 1

\* C19: every remote call is preceded by exactly one jitter sleep and the
\* fixed delay is slept once after each failed attempt that is not the last:
\* while the loop runs every attempt so far has failed and was followed by
\* one delay, and a call that returned at attempt k >= 1 has made k remote
\* calls, k jitter sleeps and k - 1 fixed delays, whether it returned a
\* table, an empty result or None.
C19_SleepsPerAttempt ==
    \A f \in Calls :
        /\ f.jitters = f.attempts
        /\ f.calls = f.attempts
        /\ ~f.returned => f.delays = f.attempts /\ f.fails = f.attempts
        /\ (f.returned /\ f.attempts >= 1) =>
              /\ f.delays = f.attempts - 1
              /\ Outcome(f.result) \in {"Success", "EmptyResult"} =>
                    f.fails = f.attempts - 1
              /\ Outcome(f.result) = "PermanentFailure" =>
                    f.fails = f.attempts /\ f.attempts = f.max_retries

C19_Witness ==
    \E f \in Calls :
        /\ f.returned /\ Outcome(f.result) = "PermanentFailure"
        /\ f.attempts = MaxRetries /\ f.jitters = MaxRetries
        /\ f.delays = MaxRetries - 1

DirectCalls == { task[r].call : r \in { q \in DOMAIN task : task[q].entry = "client" } }

\* C20: a call of the client with max_retries <= 0 makes no remote call,
\* sleeps neither for jitter nor for a delay, logs no warning, error or info
\* and returns None by the return after the loop; and a task runner that got
\* None has returned without logging anything and without writing a file.
C20_NoRetriesSilent ==
    /\ \A f \in DirectCalls :
          f.max_retries <= 0 =>
              /\ f.attempts = 0 /\ f.calls = 0
              /\ f.jitters = 0 /\ f.delays = 0
              /\ f.warnings = 0 /\ f.errors = 0 /\ f.infos = 0
              /\ f.returned => f.result = NoneVal
    /\ \A r \in DOMAIN task :
          (task[r].entry = "client" /\ task[r].call.max_retries <= 0) =>
              (task[r].pc = "ret" <=> task[r].call.returned)
    /\ \A r \in DOMAIN task :
          task[r].pc = "returned" =>
              /\ task[r].winfos = 0
              /\ r \notin DOMAIN long_file /\ r \notin DOMAIN short_file

C20_Witness ==
    \E f \in DirectCalls :
        /\ f.max_retries < 0
        /\ f.returned
        /\ f.result = NoneVal
        /\ f.calls = 0 /\ f.jitters = 0 /\ f.warnings = 0 /\ f.errors = 0

====
